---- MODULE Spec2Model ----
(***************************************************************************)
(* A model of tealc.py, the TEAL text-to-bytecode assembler.               *)
(*                                                                         *)
(* Text is modelled at the character level: a string is a sequence of      *)
(* one-character strings, so that strip/split, startswith/endswith, the    *)
(* integer-literal parser and the base16/base32/base64 decoders are        *)
(* computed rather than assumed.  A byte string is a sequence of integers  *)
(* in 0..255.                                                              *)
(***************************************************************************)
EXTENDS Integers, Sequences, FiniteSets, TLC

(***************************************************************************)
(* Bounds of the model.                                                    *)
(***************************************************************************)
\* the number of source lines of an assembled text
MaxLines == 3

(***************************************************************************)
(* Character-level text.                                                   *)
(***************************************************************************)
Upper == <<"A","B","C","D","E","F","G","H","I","J","K","L","M","N","O","P","Q","R","S","T","U","V","W","X","Y","Z">>
Lower == <<"a","b","c","d","e","f","g","h","i","j","k","l","m","n","o","p","q","r","s","t","u","v","w","x","y","z">>
Digits == <<"0","1","2","3","4","5","6","7","8","9">>

Range(s) == {s[i] : i \in 1..Len(s)}

\* position of c in the sequence s (c is known to occur in s)
IndexOf(s, c) == CHOOSE i \in 1..Len(s) : s[i] = c

IsSpace(c) == c \in {" ", "\t"}

RECURSIVE lstrip(_)
lstrip(s) == IF s # <<>> /\ IsSpace(Head(s)) THEN lstrip(Tail(s)) ELSE s

RECURSIVE rstrip(_)
rstrip(s) ==
    IF s # <<>> /\ IsSpace(s[Len(s)]) THEN rstrip(SubSeq(s, 1, Len(s) - 1)) ELSE s

\* str.strip()
strip(s) == rstrip(lstrip(s))

\* length of the leading run of non-blank characters of s
RECURSIVE WordLen(_)
WordLen(s) == IF s = <<>> \/ IsSpace(Head(s)) THEN 0 ELSE 1 + WordLen(Tail(s))

\* str.split(): the maximal runs of non-blank characters, in order
RECURSIVE split(_)
split(s) ==
    LET t == lstrip(s) IN
    IF t = <<>> THEN <<>>
    ELSE LET n == WordLen(t) IN <<SubSeq(t, 1, n)>> \o split(SubSeq(t, n + 1, Len(t)))

\* str.startswith(p) and str.endswith(p)
startswith(s, p) == Len(s) >= Len(p) /\ SubSeq(s, 1, Len(p)) = p
endswith(s, p) == Len(s) >= Len(p) /\ SubSeq(s, Len(s) - Len(p) + 1, Len(s)) = p

\* str.upper() on the letters a..z
upper(s) ==
    [i \in 1..Len(s) |-> IF s[i] \in Range(Lower) THEN Upper[IndexOf(Lower, s[i])] ELSE s[i]]

(***************************************************************************)
(* Integer literals.  A parse result is <<TRUE, value>> or <<FALSE, 0>>    *)
(* (ValueError).  Digit-group underscores and surrounding blanks, which    *)
(* int() also accepts, do not occur in the tokens of the model.            *)
(***************************************************************************)
HexDigits == <<"0","1","2","3","4","5","6","7","8","9","a","b","c","d","e","f">>

DigitsOfBase(base) == Range(SubSeq(HexDigits, 1, base)) \cup Range(upper(SubSeq(HexDigits, 1, base)))

DigitVal(c) == IF c \in Range(HexDigits) THEN IndexOf(HexDigits, c) - 1
               ELSE IndexOf(upper(HexDigits), c) - 1

RECURSIVE Magnitude(_, _, _)
Magnitude(ds, base, acc) ==
    IF ds = <<>> THEN acc ELSE Magnitude(Tail(ds), base, acc * base + DigitVal(Head(ds)))

\* the unsigned part of a literal in a fixed base
ParseDigits(ds, base) ==
    IF ds # <<>> /\ Range(ds) \subseteq DigitsOfBase(base)
    THEN <<TRUE, Magnitude(ds, base, 0)>> ELSE <<FALSE, 0>>

\* the unsigned part of a base=0 literal: 0x, 0o, 0b prefixes, else decimal
\* with no leading zero unless the literal is all zeros
ParsePrefixed(ds) ==
    IF Len(ds) >= 2 /\ ds[1] = "0" /\ ds[2] \in {"x", "X"} THEN ParseDigits(SubSeq(ds, 3, Len(ds)), 16)
    ELSE IF Len(ds) >= 2 /\ ds[1] = "0" /\ ds[2] \in {"o", "O"} THEN ParseDigits(SubSeq(ds, 3, Len(ds)), 8)
    ELSE IF Len(ds) >= 2 /\ ds[1] = "0" /\ ds[2] \in {"b", "B"} THEN ParseDigits(SubSeq(ds, 3, Len(ds)), 2)
    ELSE IF ds # <<>> /\ ds[1] = "0" /\ Range(ds) # {"0"} THEN <<FALSE, 0>>
    ELSE ParseDigits(ds, 10)

\* an optional sign before the digits
Sign(tok) == IF tok # <<>> /\ Head(tok) = "-" THEN 0 - 1 ELSE 1
Unsigned(tok) == IF tok # <<>> /\ Head(tok) \in {"+", "-"} THEN Tail(tok) ELSE tok

\* int(tok, base=0)
int0(tok) == LET r == ParsePrefixed(Unsigned(tok)) IN <<r[1], Sign(tok) * r[2]>>

\* int(tok)
int10(tok) == LET r == ParseDigits(Unsigned(tok), 10) IN <<r[1], Sign(tok) * r[2]>>

(***************************************************************************)
(* to_varuint.  The loop ends when x reaches 0; x >> 7 of a negative x is  *)
(* negative again (Python integers are unbounded), so the loop never ends  *)
(* for x < 0: varuint_diverges.  Each iteration appends a byte to the      *)
(* list, so the call stops only when the interpreter runs out of memory;   *)
(* the model records it as a call that never returns ("hung").             *)
(***************************************************************************)
varuint_diverges(x) == x < 0

\* a variant of to_varuint that sets the continuation bit by the value
\* before the shift: every non-zero value gets one more group
RECURSIVE to_varuint_unshifted(_)
to_varuint_unshifted(x) ==
    LET tb == x % 128
        rest == x \div 128
    IN IF x # 0 THEN <<tb + 128>> \o to_varuint_unshifted(rest) ELSE <<tb>>

RECURSIVE to_varuint(_)
to_varuint(x) ==
    LET tb == x % 128
        rest == x \div 128
    IN IF rest # 0 THEN <<tb + 128>> \o to_varuint(rest) ELSE <<tb>>

(***************************************************************************)
(* base64.b16decode, base64.b32decode and base64.b64decode, as the Python  *)
(* standard library computes them.  A result is <<TRUE, bytes>> or, when   *)
(* the library raises binascii.Error, <<FALSE, <<>>>>.                      *)
(***************************************************************************)
DecodeError == <<FALSE, <<>>>>

B16Alphabet == <<"0","1","2","3","4","5","6","7","8","9","A","B","C","D","E","F">>
B32Alphabet == <<"A","B","C","D","E","F","G","H","I","J","K","L","M","N","O","P","Q","R","S","T","U","V","W","X","Y","Z","2","3","4","5","6","7">>
B64Alphabet == <<"A","B","C","D","E","F","G","H","I","J","K","L","M","N","O","P","Q","R","S","T","U","V","W","X","Y","Z","a","b","c","d","e","f","g","h","i","j","k","l","m","n","o","p","q","r","s","t","u","v","w","x","y","z","0","1","2","3","4","5","6","7","8","9","+","/">>

\* a non-hex digit or an odd length raises
b16decode(s) ==
    IF ~(Range(s) \subseteq Range(B16Alphabet)) THEN DecodeError
    ELSE IF Len(s) % 2 # 0 THEN DecodeError
    ELSE <<TRUE, [i \in 1..(Len(s) \div 2) |->
                    16 * (IndexOf(B16Alphabet, s[2 * i - 1]) - 1)
                       + (IndexOf(B16Alphabet, s[2 * i]) - 1)]>>

RECURSIVE rstripPad(_)
rstripPad(s) ==
    IF s # <<>> /\ s[Len(s)] = "=" THEN rstripPad(SubSeq(s, 1, Len(s) - 1)) ELSE s

\* the five bytes of one quantum of eight 5-bit digits (acc.to_bytes(5)); a
\* short last quantum is shifted left by 5 bits per pad character, which is
\* the quantum completed with zero digits
B32Quantum(v) ==
    << v[1] * 8 + v[2] \div 4,
       (v[2] % 4) * 64 + v[3] * 2 + v[4] \div 16,
       (v[4] % 16) * 16 + v[5] \div 2,
       (v[5] % 2) * 128 + v[6] * 4 + v[7] \div 8,
       (v[7] % 8) * 32 + v[8] >>

RECURSIVE B32Quanta(_, _)
B32Quanta(t, q) ==
    IF 8 * q >= Len(t) THEN <<>>
    ELSE LET v == [j \in 1..8 |-> IF 8 * q + j <= Len(t)
                                  THEN IndexOf(B32Alphabet, t[8 * q + j]) - 1 ELSE 0]
         IN B32Quantum(v) \o B32Quanta(t, q + 1)

\* the input length must be a multiple of 8 (padding is required), every
\* character before the padding must be a digit, and only 0, 1, 3, 4 or 6
\* pad characters are accepted
b32decode(s) ==
    IF Len(s) % 8 # 0 THEN DecodeError
    ELSE LET t == rstripPad(s)
             padchars == Len(s) - Len(t)
             decoded == B32Quanta(t, 0)
             leftover == (43 - 5 * padchars) \div 8
         IN IF ~(Range(t) \subseteq Range(B32Alphabet)) THEN DecodeError
            ELSE IF padchars \notin {0, 1, 3, 4, 6} THEN DecodeError
            ELSE IF padchars # 0 /\ decoded # <<>>
                 THEN <<TRUE, SubSeq(decoded, 1, Len(decoded) - 5 + leftover)>>
                 ELSE <<TRUE, decoded>>

\* binascii.a2b_base64 in its default, non-strict mode: characters outside
\* the alphabet are skipped, a pad sequence completing a quad ends the
\* decoding, and an incomplete quad at the end raises
RECURSIVE a2b_base64(_, _, _, _, _)
a2b_base64(s, quad_pos, leftchar, pads, bin) ==
    IF s = <<>> THEN (IF quad_pos # 0 THEN DecodeError ELSE <<TRUE, bin>>)
    ELSE LET c == Head(s) IN
         IF c = "=" THEN
              IF quad_pos >= 2 /\ quad_pos + pads + 1 >= 4 THEN <<TRUE, bin>>
              ELSE a2b_base64(Tail(s), quad_pos, leftchar,
                              IF quad_pos >= 2 THEN pads + 1 ELSE pads, bin)
         ELSE IF c \notin Range(B64Alphabet) THEN
              a2b_base64(Tail(s), quad_pos, leftchar, pads, bin)
         ELSE LET x == IndexOf(B64Alphabet, c) - 1 IN
              CASE quad_pos = 0 -> a2b_base64(Tail(s), 1, x, 0, bin)
                [] quad_pos = 1 ->
                     a2b_base64(Tail(s), 2, x % 16, 0, Append(bin, leftchar * 4 + x \div 16))
                [] quad_pos = 2 ->
                     a2b_base64(Tail(s), 3, x % 4, 0, Append(bin, leftchar * 16 + x \div 4))
                [] OTHER ->
                     a2b_base64(Tail(s), 0, 0, 0, Append(bin, leftchar * 64 + x))

b64decode(s) == a2b_base64(s, 0, 0, 0, <<>>)

(***************************************************************************)
(* parseByteConstant.  A result is <<TRUE, bytes, remaining args>> or      *)
(* <<FALSE, <<>>, <<>>>> when an exception is raised.                       *)
(***************************************************************************)
ParseFailure == <<FALSE, <<>>, <<>>>>

\* position of the first c in s (c occurs in s)
FirstIndexOf(s, c) == CHOOSE i \in 1..Len(s) : s[i] = c /\ \A j \in 1..(i - 1) : s[j] # c

\* re.compile(prefix + r'\((.*?)\)').match(tok): the prefix and an opening
\* parenthesis at the start of the token, then the shortest text up to a
\* closing parenthesis.  <<TRUE, group 1>> or <<FALSE, <<>>>>.
reMatch(prefix, tok) ==
    LET head == prefix \o <<"(">>
        rest == SubSeq(tok, Len(head) + 1, Len(tok))
    IN IF startswith(tok, head) /\ ")" \in Range(rest)
       THEN <<TRUE, SubSeq(rest, 1, FirstIndexOf(rest, ")") - 1)>>
       ELSE <<FALSE, <<>>>>

W_b32 == <<"b","3","2">>
W_base32 == <<"b","a","s","e","3","2">>
W_b64 == <<"b","6","4">>
W_base64 == <<"b","a","s","e","6","4">>

Decoded(r, rest) == IF r[1] THEN <<TRUE, r[2], rest>> ELSE ParseFailure

DropArgs(args, n) == SubSeq(args, n + 1, Len(args))

parseByteConstant(args) ==
    LET a0 == args[1]
        m32 == IF reMatch(W_b32, a0)[1] THEN reMatch(W_b32, a0) ELSE reMatch(W_base32, a0)
        m64 == IF reMatch(W_b64, a0)[1] THEN reMatch(W_b64, a0) ELSE reMatch(W_base64, a0)
    IN IF a0 \in {W_b32, W_base32} THEN
            (IF Len(args) < 2 THEN ParseFailure
             ELSE Decoded(b32decode(args[2]), DropArgs(args, 2)))
       ELSE IF a0 \in {W_b64, W_base64} THEN
            (IF Len(args) < 2 THEN ParseFailure
             ELSE Decoded(b64decode(args[2]), DropArgs(args, 2)))
       ELSE IF startswith(a0, <<"0", "x">>) THEN
            Decoded(b16decode(upper(SubSeq(a0, 3, Len(a0)))), DropArgs(args, 1))
       ELSE IF m32[1] THEN Decoded(b32decode(m32[2]), DropArgs(args, 1))
       ELSE IF m64[1] THEN Decoded(b64decode(m64[2]), DropArgs(args, 1))
       ELSE ParseFailure

(***************************************************************************)
(* The opcode table.  langspec.json maps each mnemonic to its opcode and,  *)
(* for the field accessors, to the ordered names of its argument; the      *)
(* entries below are the part of the table the model's lines use.          *)
(***************************************************************************)
\* the spelling of the words the assembler compares tokens with
Lexicon ==
    { <<"int", <<"i","n","t">>>>,
      <<"intc", <<"i","n","t","c">>>>,
      <<"intcblock", <<"i","n","t","c","b","l","o","c","k">>>>,
      <<"byte", <<"b","y","t","e">>>>,
      <<"bytec", <<"b","y","t","e","c">>>>,
      <<"bytecblock", <<"b","y","t","e","c","b","l","o","c","k">>>>,
      <<"addr", <<"a","d","d","r">>>>,
      <<"arg", <<"a","r","g">>>>,
      <<"txn", <<"t","x","n">>>>,
      <<"gtxn", <<"g","t","x","n">>>>,
      <<"global", <<"g","l","o","b","a","l">>>>,
      <<"bnz", <<"b","n","z">>>>,
      <<"load", <<"l","o","a","d">>>>,
      <<"store", <<"s","t","o","r","e">>>>,
      <<"err", <<"e","r","r">>>>,
      <<"pop", <<"p","o","p">>>>,
      <<"+", <<"+">>>> }

\* the word a token spells, "" when it spells none of them
NameOf(tok) ==
    IF \E e \in Lexicon : e[2] = tok THEN (CHOOSE e \in Lexicon : e[2] = tok)[1] ELSE ""

\* Sender, Fee, FirstValid
TxnFields ==
    << <<"S","e","n","d","e","r">>, <<"F","e","e">>,
       <<"F","i","r","s","t","V","a","l","i","d">> >>

\* MinTxnFee, MinBalance
GlobalFields ==
    << <<"M","i","n","T","x","n","F","e","e">>,
       <<"M","i","n","B","a","l","a","n","c","e">> >>

Op(name, opcode, argEnum) == name :> [Name |-> name, Opcode |-> opcode, ArgEnum |-> argEnum]

OpSpec ==
    Op("err", 0, <<>>) @@ Op("+", 8, <<>>) @@ Op("pop", 72, <<>>)
    @@ Op("intcblock", 32, <<>>) @@ Op("intc", 33, <<>>)
    @@ Op("bytecblock", 38, <<>>) @@ Op("bytec", 39, <<>>)
    @@ Op("arg", 44, <<>>)
    @@ Op("txn", 49, TxnFields) @@ Op("global", 50, GlobalFields)
    @@ Op("gtxn", 51, TxnFields)
    @@ Op("load", 52, <<>>) @@ Op("store", 53, <<>>) @@ Op("bnz", 64, <<>>)

\* the value of opByName.get(tok) when the mnemonic is not in the table
None == [Name |-> "", Opcode |-> -1, ArgEnum |-> <<>>]

opByName(tok) == IF NameOf(tok) \in DOMAIN OpSpec THEN OpSpec[NameOf(tok)] ELSE None

(***************************************************************************)
(* algosdk.encoding.decode_address: a 58-character address is the base32   *)
(* text, without padding, of a 32-byte key followed by the last 4 bytes of *)
(* its SHA-512/256 digest.  The digest is tabulated for the all-zero key,  *)
(* the one key the model's lines use.  <<TRUE, key>> or <<FALSE, <<>>>>.    *)
(***************************************************************************)
ZeroKey == [i \in 1..32 |-> 0]

checksum(key) == IF key = ZeroKey THEN <<12, 116, 229, 84>> ELSE <<>>

decode_address(addr) ==
    IF Len(addr) # 58 THEN DecodeError
    ELSE LET d == b32decode(addr \o <<"=","=","=","=","=","=">>) IN
         IF ~d[1] THEN DecodeError
         ELSE IF checksum(SubSeq(d[2], 1, 32)) # SubSeq(d[2], 33, 36) THEN DecodeError
         ELSE <<TRUE, SubSeq(d[2], 1, 32)>>

(***************************************************************************)
(* The Assembler.  `self` is the record of the object's fields; out is the *)
(* content of the BytesIO, which is only ever appended to, so out.tell()   *)
(* is its length.  A call's outcome is a record:                           *)
(*   self    the object after the call                                     *)
(*   raised  the exception's message, "" when the call returned            *)
(*   line    the source line number the message carries, 0 when none       *)
(*   hung    the call never returns                                        *)
(*   value   the bytes returned (getBytes)                                 *)
(*   ref     history: <<pool, value, index>> of the constant reference the *)
(*           call emitted for an int, byte or addr line, <<>> otherwise    *)
(*   blocks  history: the constant blocks the call wrote, in order, each   *)
(*           <<pool, constants>>                                           *)
(***************************************************************************)
version == 1

Returned(self) ==
    [self |-> self, raised |-> "", line |-> 0, hung |-> FALSE, value |-> <<>>,
     ref |-> <<>>, blocks |-> <<>>]

Raised(self, msg) == [Returned(self) EXCEPT !.raised = msg]

Hung(self) == [Returned(self) EXCEPT !.hung = TRUE]

\* self.out.write(bytes)
write(self, bytes) == [self EXCEPT !.out = @ \o bytes]

\* bytes([...]) raises ValueError unless every element is in range(256)
IsByte(x) == x \in 0..255

Min(S) == CHOOSE x \in S : \A y \in S : x <= y

\* a variant of setLabel without the duplicate check: a second declaration
\* moves the label
setLabel_overwrite(self, label) ==
    Returned([self EXCEPT !.labels =
                [n \in DOMAIN self.labels \cup {label} |->
                   IF n = label THEN Len(self.out) ELSE self.labels[n]]])

setLabel(self, label) ==
    IF label \in DOMAIN self.labels THEN Raised(self, "duplicate label")
    ELSE Returned([self EXCEPT !.labels =
                     [n \in DOMAIN self.labels \cup {label} |->
                        IF n = label THEN Len(self.out) ELSE self.labels[n]]])

referenceLabel(self, sourceLine, pc, label) ==
    [self EXCEPT !.labelReferences = Append(@, <<sourceLine, pc, label>>)]

intc_ops == (0 :> <<34>>) @@ (1 :> <<35>>) @@ (2 :> <<36>>) @@ (3 :> <<37>>)
bytec_ops == (0 :> <<40>>) @@ (1 :> <<41>>) @@ (2 :> <<42>>) @@ (3 :> <<43>>)
arg_ops == (0 :> <<45>>) @@ (1 :> <<46>>) @@ (2 :> <<47>>) @@ (3 :> <<48>>)

\* a variant of write_intc whose limit is off by one: index 256 is accepted
write_intc_limit(self, constIndex) ==
    IF constIndex \in DOMAIN intc_ops THEN Returned(write(self, intc_ops[constIndex]))
    ELSE IF constIndex > 256 THEN Raised(self, "cannot have more than 256 int constants")
    ELSE IF constIndex < 0 THEN Raised(self, "invalid negative intc const index")
    ELSE Returned(write(self, <<33, constIndex>>))

write_intc(self, constIndex) ==
    IF constIndex \in DOMAIN intc_ops THEN Returned(write(self, intc_ops[constIndex]))
    ELSE IF constIndex > 255 THEN Raised(self, "cannot have more than 256 int constants")
    ELSE IF constIndex < 0 THEN Raised(self, "invalid negative intc const index")
    ELSE Returned(write(self, <<33, constIndex>>))

assemble_int(self, op, args) ==
    IF Len(args) # 1 THEN Raised(self, "int expects 1 arg")
    ELSE LET p == int0(args[1]) IN
         IF ~p[1] THEN Raised(self, "ValueError")
         ELSE LET val == p[2]
                  found == {i \in 1..Len(self.intc) : self.intc[i] = val}
                  constIndex == IF found # {} THEN Min(found) - 1 ELSE Len(self.intc)
                  s1 == IF found # {} THEN self ELSE [self EXCEPT !.intc = Append(@, val)]
                  r == write_intc(s1, constIndex)
              IN IF r.raised = "" THEN [r EXCEPT !.ref = <<"int", val, constIndex>>] ELSE r

assemble_intc(self, op, args) ==
    IF Len(args) # 1 THEN Raised(self, "intc expects 1 arg")
    ELSE LET p == int0(args[1]) IN
         IF ~p[1] THEN Raised(self, "ValueError") ELSE write_intc(self, p[2])

RECURSIVE Flatten(_)
Flatten(ss) == IF ss = <<>> THEN <<>> ELSE Head(ss) \o Flatten(Tail(ss))

\* to_varuint never returns for one of the values
intcblock_diverges(intc) == \E i \in 1..Len(intc) : varuint_diverges(intc[i])

\* the content of `out` after the block is written to it
write_intcblock(out, intc) ==
    out \o <<32>> \o to_varuint(Len(intc))
        \o Flatten([i \in 1..Len(intc) |-> to_varuint(intc[i])])

assemble_intcblock(self, op, args) ==
    LET ps == [i \in 1..Len(args) |-> int0(args[i])] IN
    IF \E i \in 1..Len(args) : ~ps[i][1] THEN Raised(self, "ValueError")
    ELSE LET intc == [i \in 1..Len(args) |-> ps[i][2]] IN
         IF intcblock_diverges(intc) THEN Hung(self)
         ELSE [Returned([self EXCEPT !.out = write_intcblock(@, intc),
                                     !.intcWritten = TRUE,
                                     !.intc = intc])
                 EXCEPT !.blocks = << <<"int", intc>> >>]

write_bytec(self, constIndex) ==
    IF constIndex \in DOMAIN bytec_ops THEN Returned(write(self, bytec_ops[constIndex]))
    ELSE IF constIndex > 255 THEN Raised(self, "cannot have more than 256 byte constants")
    ELSE IF constIndex < 0 THEN Raised(self, "invalid negative bytec const index")
    ELSE Returned(write(self, <<39, constIndex>>))

assemble_bytec(self, op, args) ==
    IF Len(args) # 1 THEN Raised(self, "bytec expects 1 arg")
    ELSE LET p == int10(args[1]) IN
         IF ~p[1] THEN Raised(self, "ValueError") ELSE write_bytec(self, p[2])

bytestring(self, val) ==
    LET found == {i \in 1..Len(self.bytec) : self.bytec[i] = val}
        constIndex == IF found # {} THEN Min(found) - 1 ELSE Len(self.bytec)
        s1 == IF found # {} THEN self ELSE [self EXCEPT !.bytec = Append(@, val)]
        r == write_bytec(s1, constIndex)
    IN IF r.raised = "" THEN [r EXCEPT !.ref = <<"byte", val, constIndex>>] ELSE r

assemble_addr(self, op, args) ==
    IF Len(args) # 1 THEN Raised(self, "addr expects 1 arg")
    ELSE LET addr == decode_address(args[1]) IN
         IF ~addr[1] THEN Raised(self, "could not decode address")
         ELSE bytestring(self, addr[2])

assemble_byte(self, op, args) ==
    IF Len(args) < 1 THEN Raised(self, "byte expects an args")
    ELSE LET p == parseByteConstant(args) IN
         IF ~p[1] THEN Raised(self, "could not parse byte constant")
         ELSE bytestring(self, p[2])

write_bytecblock(out, bytec) ==
    out \o <<38>> \o to_varuint(Len(bytec))
        \o Flatten([i \in 1..Len(bytec) |-> to_varuint(Len(bytec[i])) \o bytec[i]])

\* the loop of assemble_bytecblock: <<TRUE, constants>> or <<FALSE, <<>>>>
RECURSIVE parseByteConstants(_, _)
parseByteConstants(args, bytec) ==
    IF args = <<>> THEN <<TRUE, bytec>>
    ELSE LET p == parseByteConstant(args) IN
         IF ~p[1] THEN <<FALSE, <<>>>> ELSE parseByteConstants(p[3], Append(bytec, p[2]))

assemble_bytecblock(self, op, args) ==
    LET p == parseByteConstants(args, <<>>) IN
    IF ~p[1] THEN Raised(self, "could not parse byte constant")
    ELSE [Returned([self EXCEPT !.out = write_bytecblock(@, p[2]),
                                !.bytecWritten = TRUE,
                                !.bytec = p[2]])
            EXCEPT !.blocks = << <<"byte", p[2]>> >>]

assemble_arg(self, op, args) ==
    IF Len(args) # 1 THEN Raised(self, "arg expects 1 arg")
    ELSE LET p == int10(args[1])
             constIndex == p[2]
         IN IF ~p[1] THEN Raised(self, "ValueError")
            ELSE IF constIndex \in DOMAIN arg_ops THEN Returned(write(self, arg_ops[constIndex]))
            ELSE IF constIndex > 255 THEN Raised(self, "cannot have more than 256 args")
            ELSE IF constIndex < 0 THEN Raised(self, "invalid negative arg index")
            ELSE Returned(write(self, <<44, constIndex>>))

\* the 0-based positions of name in the ArgEnum of op
EnumIndex(op, name) == {i - 1 : i \in {j \in 1..Len(op.ArgEnum) : op.ArgEnum[j] = name}}

assemble_txn(self, op, args) ==
    IF Len(args) # 1 THEN Raised(self, "expects one argument")
    ELSE IF EnumIndex(op, args[1]) # {}
         THEN Returned(write(self, <<op.Opcode, Min(EnumIndex(op, args[1]))>>))
         ELSE Raised(self, "unknown arg")

assemble_gtxn(self, op, args) ==
    IF Len(args) # 2 THEN Raised(self, "expects two arguments")
    ELSE LET gtid == int10(args[1]) IN
         IF ~gtid[1] THEN Raised(self, "ValueError")
         ELSE IF EnumIndex(op, args[2]) = {} THEN Raised(self, "unknown arg")
         ELSE IF ~IsByte(gtid[2]) THEN Raised(self, "ValueError")
         ELSE Returned(write(self, <<op.Opcode, gtid[2], Min(EnumIndex(op, args[2]))>>))

assemble_global(self, op, args) ==
    IF Len(args) # 1 THEN Raised(self, "expects one argument")
    ELSE IF EnumIndex(op, args[1]) # {}
         THEN Returned(write(self, <<op.Opcode, Min(EnumIndex(op, args[1]))>>))
         ELSE Raised(self, "unknown arg")

\* a variant of assemble_bnz that takes the offset after the three bytes
\* are written
assemble_bnz_after(self, op, args) ==
    IF args = <<>> THEN Raised(self, "IndexError")
    ELSE Returned(referenceLabel(write(self, <<64, 0, 0>>), self.sourceLine,
                                 Len(self.out) + 3, args[1]))

\* args[0] raises IndexError when the line gives no argument
assemble_bnz(self, op, args) ==
    IF args = <<>> THEN Raised(self, "IndexError")
    ELSE Returned(write(referenceLabel(self, self.sourceLine, Len(self.out), args[1]),
                        <<64, 0, 0>>))

load_store(self, op, args) ==
    IF Len(args) # 1 THEN Raised(self, "expects 1 arg")
    ELSE LET arg == int10(args[1]) IN
         IF ~arg[1] \/ ~IsByte(arg[2]) THEN Raised(self, "ValueError")
         ELSE Returned(write(self, <<op.Opcode, arg[2]>>))

assemble_load(self, op, args) == load_store(self, op, args)
assemble_store(self, op, args) == load_store(self, op, args)

(***************************************************************************)
(* assembleLine.                                                           *)
(***************************************************************************)
Comment == <<"/", "/">>

\* the line is empty, blank or a whole-line comment: assembleLine returns at once
Skipped(rawline) ==
    rawline = <<>> \/ strip(rawline) = <<>> \/ startswith(strip(rawline), Comment)

\* a variant of Parts that keeps the comment tokens
Parts_uncut(rawline) == split(strip(rawline))

\* the tokens of a line that is not skipped, cut at the first token that
\* starts a comment (newparts, which replaces parts only when it is not empty)
Parts(rawline) ==
    LET parts == split(strip(rawline))
        comments == {i \in 1..Len(parts) : startswith(parts[i], Comment)}
        newparts == IF comments # {} THEN SubSeq(parts, 1, Min(comments) - 1) ELSE <<>>
    IN IF newparts # <<>> THEN newparts ELSE parts

\* the mnemonics for which the class has an assemble_<mnemonic> method
Handlers == {"int", "intc", "intcblock", "bytec", "addr", "byte", "bytecblock",
             "arg", "txn", "gtxn", "global", "bnz", "load", "store"}

\* what the first token p0 of a line is dispatched to: a handler, "op" (the
\* default: the opcode alone), "label" or "unknown"
Target(p0, name, op) ==
    IF name \in Handlers THEN name
    ELSE IF op # None THEN "op"
    ELSE IF endswith(p0, <<":">>) THEN "label"
    ELSE "unknown"

\* what a line is dispatched to; "skip" when assembleLine returns at once
HandlerOf(rawline) ==
    IF Skipped(rawline) THEN "skip"
    ELSE Target(Parts(rawline)[1], NameOf(Parts(rawline)[1]), opByName(Parts(rawline)[1]))

\* the tokens assembleLine hands to the handler: the opcode entry of the
\* first token, parts[1:], and the name a label declaration gives
OpOf(rawline) == opByName(Parts(rawline)[1])

Args(rawline) == Tail(Parts(rawline))

LabelOf(rawline) == SubSeq(Parts(rawline)[1], 1, Len(Parts(rawline)[1]) - 1)

(***************************************************************************)
(* resolveLabels and getBytes.  program is a view of the buffer of out, so *)
(* the patches are made in out itself, those made before a reference fails *)
(* included.                                                               *)
(***************************************************************************)
\* a variant of the loop that tests the label's offset for truth ("if not
\* dest"), so that a label at offset 0 counts as undefined
RECURSIVE patchReferences_falsy(_, _, _)
patchReferences_falsy(program, references, labels) ==
    IF references = <<>> THEN [raised |-> "", line |-> 0, program |-> program]
    ELSE LET sourceLine == Head(references)[1]
             pc == Head(references)[2]
             label == Head(references)[3]
             nextPc == pc + 3
         IN IF label \notin DOMAIN labels \/ labels[label] = 0
            THEN [raised |-> "reference to undefined label", line |-> sourceLine,
                  program |-> program]
            ELSE IF labels[label] < nextPc
            THEN [raised |-> "label is before reference but only forward jumps are allowed",
                  line |-> sourceLine, program |-> program]
            ELSE IF labels[label] - nextPc > 32767
            THEN [raised |-> "label is too far away", line |-> sourceLine,
                  program |-> program]
            ELSE LET jump == labels[label] - nextPc IN
                 patchReferences_falsy([program EXCEPT ![pc + 2] = jump \div 256,
                                                       ![pc + 3] = jump % 256],
                                       Tail(references), labels)

\* a variant of the loop that measures the jump from the branch itself
\* instead of from the instruction after it
RECURSIVE patchReferences_fromPc(_, _, _)
patchReferences_fromPc(program, references, labels) ==
    IF references = <<>> THEN [raised |-> "", line |-> 0, program |-> program]
    ELSE LET sourceLine == Head(references)[1]
             pc == Head(references)[2]
             label == Head(references)[3]
             nextPc == pc + 3
         IN IF label \notin DOMAIN labels
            THEN [raised |-> "reference to undefined label", line |-> sourceLine,
                  program |-> program]
            ELSE IF labels[label] < nextPc
            THEN [raised |-> "label is before reference but only forward jumps are allowed",
                  line |-> sourceLine, program |-> program]
            ELSE IF labels[label] - nextPc > 32767
            THEN [raised |-> "label is too far away", line |-> sourceLine,
                  program |-> program]
            ELSE LET jump == labels[label] - pc IN
                 patchReferences_fromPc([program EXCEPT ![pc + 2] = jump \div 256,
                                                        ![pc + 3] = jump % 256],
                                        Tail(references), labels)

\* a variant of the loop whose range test is off by one: a jump of 0x7fff
\* is refused
RECURSIVE patchReferences_limit(_, _, _)
patchReferences_limit(program, references, labels) ==
    IF references = <<>> THEN [raised |-> "", line |-> 0, program |-> program]
    ELSE LET sourceLine == Head(references)[1]
             pc == Head(references)[2]
             label == Head(references)[3]
             nextPc == pc + 3
         IN IF label \notin DOMAIN labels
            THEN [raised |-> "reference to undefined label", line |-> sourceLine,
                  program |-> program]
            ELSE IF labels[label] < nextPc
            THEN [raised |-> "label is before reference but only forward jumps are allowed",
                  line |-> sourceLine, program |-> program]
            ELSE IF labels[label] - nextPc >= 32767
            THEN [raised |-> "label is too far away", line |-> sourceLine,
                  program |-> program]
            ELSE LET jump == labels[label] - nextPc IN
                 patchReferences_limit([program EXCEPT ![pc + 2] = jump \div 256,
                                                       ![pc + 3] = jump % 256],
                                       Tail(references), labels)

\* the loop of resolveLabels over the references not yet processed
RECURSIVE patchReferences(_, _, _)
patchReferences(program, references, labels) ==
    IF references = <<>> THEN [raised |-> "", line |-> 0, program |-> program]
    ELSE LET sourceLine == Head(references)[1]
             pc == Head(references)[2]
             label == Head(references)[3]
             nextPc == pc + 3
         IN IF label \notin DOMAIN labels
            THEN [raised |-> "reference to undefined label", line |-> sourceLine,
                  program |-> program]
            ELSE IF labels[label] < nextPc
            THEN [raised |-> "label is before reference but only forward jumps are allowed",
                  line |-> sourceLine, program |-> program]
            ELSE IF labels[label] - nextPc > 32767
            THEN [raised |-> "label is too far away", line |-> sourceLine,
                  program |-> program]
            ELSE LET jump == labels[label] - nextPc IN
                 patchReferences([program EXCEPT ![pc + 2] = jump \div 256,
                                                 ![pc + 3] = jump % 256],
                                 Tail(references), labels)

resolveLabels(self) ==
    IF self.labelReferences = <<>> THEN [Returned(self) EXCEPT !.value = self.out]
    ELSE LET r == patchReferences(self.out, self.labelReferences, self.labels) IN
         [Returned([self EXCEPT !.out = r.program])
            EXCEPT !.raised = r.raised, !.line = r.line,
                   !.value = IF r.raised = "" THEN r.program ELSE <<>>]

\* a variant of getBytes that writes the byte block before the int block
getBytes_bytesFirst(self) ==
    LET prefix0 == to_varuint(version)
        writeBytes == self.bytec # <<>> /\ ~self.bytecWritten
        prefix1 == IF writeBytes THEN write_bytecblock(prefix0, self.bytec) ELSE prefix0
        s1 == IF writeBytes THEN [self EXCEPT !.bytecWritten = TRUE] ELSE self
        writeInts == s1.intc # <<>> /\ ~s1.intcWritten
        prefix2 == IF writeInts THEN write_intcblock(prefix1, s1.intc) ELSE prefix1
        s2 == IF writeInts THEN [s1 EXCEPT !.intcWritten = TRUE] ELSE s1
        r == resolveLabels(s2)
    IN IF writeInts /\ intcblock_diverges(self.intc) THEN Hung(self)
       ELSE [r EXCEPT !.value = IF r.raised = "" THEN prefix2 \o r.value ELSE <<>>,
                      !.blocks = (IF writeBytes THEN << <<"byte", self.bytec>> >> ELSE <<>>)
                                 \o (IF writeInts THEN << <<"int", s1.intc>> >> ELSE <<>>)]

getBytes(self) ==
    LET prefix0 == to_varuint(version)
        writeInts == self.intc # <<>> /\ ~self.intcWritten
        prefix1 == IF writeInts THEN write_intcblock(prefix0, self.intc) ELSE prefix0
        s1 == IF writeInts THEN [self EXCEPT !.intcWritten = TRUE] ELSE self
        writeBytes == s1.bytec # <<>> /\ ~s1.bytecWritten
        prefix2 == IF writeBytes THEN write_bytecblock(prefix1, s1.bytec) ELSE prefix1
        s2 == IF writeBytes THEN [s1 EXCEPT !.bytecWritten = TRUE] ELSE s1
        r == resolveLabels(s2)
    IN IF writeInts /\ intcblock_diverges(self.intc) THEN Hung(self)
       ELSE [r EXCEPT !.value = IF r.raised = "" THEN prefix2 \o r.value ELSE <<>>,
                      !.blocks = (IF writeInts THEN << <<"int", self.intc>> >> ELSE <<>>)
                                 \o (IF writeBytes THEN << <<"byte", s1.bytec>> >> ELSE <<>>)]

(***************************************************************************)
(* The source lines the model assembles.                                   *)
(***************************************************************************)
\* ""
L_empty == <<>>
\* "  "
L_blank == <<" "," ">>
\* "// note"
L_comment == <<"/","/"," ","n","o","t","e">>
\* "int 5"
L_int_5 == <<"i","n","t"," ","5">>
\* "int 0x5"
L_int_0x5 == <<"i","n","t"," ","0","x","5">>
\* "int 7"
L_int_7 == <<"i","n","t"," ","7">>
\* "int -1"
L_int_neg == <<"i","n","t"," ","-","1">>
\* "int"
L_int_noarg == <<"i","n","t">>
\* "int 5 // five"
L_int_5_comment == <<"i","n","t"," ","5"," ","/","/"," ","f","i","v","e">>
\* "int 5 7"
L_int_2args == <<"i","n","t"," ","5"," ","7">>
\* "intc 0"
L_intc_0 == <<"i","n","t","c"," ","0">>
\* "intc 3"
L_intc_3 == <<"i","n","t","c"," ","3">>
\* "intc 4"
L_intc_4 == <<"i","n","t","c"," ","4">>
\* "intc 255"
L_intc_255 == <<"i","n","t","c"," ","2","5","5">>
\* "intc 256"
L_intc_256 == <<"i","n","t","c"," ","2","5","6">>
\* "intc -1"
L_intc_neg == <<"i","n","t","c"," ","-","1">>
\* "intcblock 5 5"
L_intcblock_5_5 == <<"i","n","t","c","b","l","o","c","k"," ","5"," ","5">>
\* "intcblock 7 5"
L_intcblock_7_5 == <<"i","n","t","c","b","l","o","c","k"," ","7"," ","5">>
\* "intcblock 1 2 3 4"
L_intcblock_1_4 == <<"i","n","t","c","b","l","o","c","k"," ","1"," ","2"," ","3"," ","4">>
\* "intcblock 1 2 3 4 5"
L_intcblock_1_5 == <<"i","n","t","c","b","l","o","c","k"," ","1"," ","2"," ","3"," ","4"," ","5">>
\* "intcblock -1"
L_intcblock_neg == <<"i","n","t","c","b","l","o","c","k"," ","-","1">>
\* "byte b32 MFRGGZDFMY"
L_byte_b32 == <<"b","y","t","e"," ","b","3","2"," ","M","F","R","G","G","Z","D","F","M","Y">>
\* "byte base32 MFRGGZDFMY"
L_byte_base32 == <<"b","y","t","e"," ","b","a","s","e","3","2"," ","M","F","R","G","G","Z","D","F","M","Y">>
\* "byte base32(MFRGGZDFMY)"
L_byte_base32_paren == <<"b","y","t","e"," ","b","a","s","e","3","2","(","M","F","R","G","G","Z","D","F","M","Y",")">>
\* "byte b32(MFRGGZDFMY)"
L_byte_b32_paren == <<"b","y","t","e"," ","b","3","2","(","M","F","R","G","G","Z","D","F","M","Y",")">>
\* "byte b32 MFRGGZDFMY======"
L_byte_b32_pad == <<"b","y","t","e"," ","b","3","2"," ","M","F","R","G","G","Z","D","F","M","Y","=","=","=","=","=","=">>
\* "byte base32 MFRGGZDFMY======"
L_byte_base32_pad == <<"b","y","t","e"," ","b","a","s","e","3","2"," ","M","F","R","G","G","Z","D","F","M","Y","=","=","=","=","=","=">>
\* "byte base32(MFRGGZDFMY======)"
L_byte_base32_paren_pad == <<"b","y","t","e"," ","b","a","s","e","3","2","(","M","F","R","G","G","Z","D","F","M","Y","=","=","=","=","=","=",")">>
\* "byte b32(MFRGGZDFMY======)"
L_byte_b32_paren_pad == <<"b","y","t","e"," ","b","3","2","(","M","F","R","G","G","Z","D","F","M","Y","=","=","=","=","=","=",")">>
\* "byte b64 YWJjZGVm"
L_byte_b64 == <<"b","y","t","e"," ","b","6","4"," ","Y","W","J","j","Z","G","V","m">>
\* "byte base64 YWJjZGVm"
L_byte_base64 == <<"b","y","t","e"," ","b","a","s","e","6","4"," ","Y","W","J","j","Z","G","V","m">>
\* "byte b64(YWJjZGVm)"
L_byte_b64_paren == <<"b","y","t","e"," ","b","6","4","(","Y","W","J","j","Z","G","V","m",")">>
\* "byte base64(YWJjZGVm)"
L_byte_base64_paren == <<"b","y","t","e"," ","b","a","s","e","6","4","(","Y","W","J","j","Z","G","V","m",")">>
\* "byte 0x616263646566"
L_byte_hex == <<"b","y","t","e"," ","0","x","6","1","6","2","6","3","6","4","6","5","6","6">>
\* "byte 0x01"
L_byte_01 == <<"b","y","t","e"," ","0","x","0","1">>
\* "byte"
L_byte_noarg == <<"b","y","t","e">>
\* "byte b32"
L_byte_b32_alone == <<"b","y","t","e"," ","b","3","2">>
\* "byte zz"
L_byte_bad == <<"b","y","t","e"," ","z","z">>
\* "bytec 0"
L_bytec_0 == <<"b","y","t","e","c"," ","0">>
\* "bytec 4"
L_bytec_4 == <<"b","y","t","e","c"," ","4">>
\* "bytec 255"
L_bytec_255 == <<"b","y","t","e","c"," ","2","5","5">>
\* "bytec 256"
L_bytec_256 == <<"b","y","t","e","c"," ","2","5","6">>
\* "bytec -1"
L_bytec_neg == <<"b","y","t","e","c"," ","-","1">>
\* "bytecblock 0x01 0x01"
L_bytecblock_01_01 == <<"b","y","t","e","c","b","l","o","c","k"," ","0","x","0","1"," ","0","x","0","1">>
\* "bytecblock 0x01 b64 YWJjZGVm"
L_bytecblock_01_abcdef == <<"b","y","t","e","c","b","l","o","c","k"," ","0","x","0","1"," ","b","6","4"," ","Y","W","J","j","Z","G","V","m">>
\* "bytecblock 0x0"
L_bytecblock_bad == <<"b","y","t","e","c","b","l","o","c","k"," ","0","x","0">>
\* "addr " and the address of the all-zero key
L_addr_zero == <<"a","d","d","r"," ">> \o [i \in 1..52 |-> "A"] \o <<"Y","5","H","F","K","Q">>
\* "addr AAAA"
L_addr_bad == <<"a","d","d","r"," ","A","A","A","A">>
\* "bnz L"
L_bnz_L == <<"b","n","z"," ","L">>
\* "bnz M"
L_bnz_M == <<"b","n","z"," ","M">>
\* "bnz"
L_bnz_noarg == <<"b","n","z">>
\* "bnz L M"
L_bnz_2args == <<"b","n","z"," ","L"," ","M">>
\* "  // note"
L_comment_indented == <<" "," ","/","/"," ","n","o","t","e">>
\* "bnz L // go"
L_bnz_L_comment == <<"b","n","z"," ","L"," ","/","/"," ","g","o">>
\* "err // stop"
L_err_comment == <<"e","r","r"," ","/","/"," ","s","t","o","p">>
\* "byte 0x01 // one"
L_byte_01_comment == <<"b","y","t","e"," ","0","x","0","1"," ","/","/"," ","o","n","e">>
\* "  L: // loop"
L_label_L_comment == <<" "," ","L",":"," ","/","/"," ","l","o","o","p">>
\* "L:"
L_label_L == <<"L",":">>
\* "M:"
L_label_M == <<"M",":">>
\* "err"
L_err == <<"e","r","r">>
\* "+"
L_plus == <<"+">>
\* "pop"
L_pop == <<"p","o","p">>
\* "foo"
L_unknown == <<"f","o","o">>
\* "arg 0"
L_arg_0 == <<"a","r","g"," ","0">>
\* "arg 3"
L_arg_3 == <<"a","r","g"," ","3">>
\* "arg 4"
L_arg_4 == <<"a","r","g"," ","4">>
\* "arg 255"
L_arg_255 == <<"a","r","g"," ","2","5","5">>
\* "arg 256"
L_arg_256 == <<"a","r","g"," ","2","5","6">>
\* "arg -1"
L_arg_neg == <<"a","r","g"," ","-","1">>
\* "arg"
L_arg_noarg == <<"a","r","g">>
\* "txn Fee"
L_txn_Fee == <<"t","x","n"," ","F","e","e">>
\* "txn Nope"
L_txn_bad == <<"t","x","n"," ","N","o","p","e">>
\* "txn"
L_txn_noarg == <<"t","x","n">>
\* "gtxn 1 Fee"
L_gtxn_1_Fee == <<"g","t","x","n"," ","1"," ","F","e","e">>
\* "gtxn 300 Fee"
L_gtxn_300_Fee == <<"g","t","x","n"," ","3","0","0"," ","F","e","e">>
\* "gtxn 1"
L_gtxn_1arg == <<"g","t","x","n"," ","1">>
\* "global MinBalance"
L_global_MinBalance == <<"g","l","o","b","a","l"," ","M","i","n","B","a","l","a","n","c","e">>
\* "global"
L_global_noarg == <<"g","l","o","b","a","l">>
\* "load 1"
L_load_1 == <<"l","o","a","d"," ","1">>
\* "load"
L_load_noarg == <<"l","o","a","d">>
\* "store 2"
L_store_2 == <<"s","t","o","r","e"," ","2">>
\* "store 256"
L_store_256 == <<"s","t","o","r","e"," ","2","5","6">>

\* the thirteen lines of byteConstantVariations
byteConstantVariations ==
    << L_byte_b32, L_byte_base32, L_byte_base32_paren, L_byte_b32_paren,
       L_byte_b32_pad, L_byte_base32_pad, L_byte_base32_paren_pad, L_byte_b32_paren_pad,
       L_byte_b64, L_byte_base64, L_byte_b64_paren, L_byte_base64_paren,
       L_byte_hex >>

\* A source text is written over one vocabulary.
Vocabulary ==
    [ ints |-> { L_empty, L_blank, L_comment, L_comment_indented,
                 L_int_5, L_int_0x5, L_int_7, L_int_neg, L_int_noarg, L_int_5_comment,
                 L_int_2args,
                 L_intc_0, L_intc_3, L_intc_4, L_intc_255, L_intc_256, L_intc_neg,
                 L_intcblock_5_5, L_intcblock_7_5, L_intcblock_1_4, L_intcblock_neg },
      bytes |-> Range(byteConstantVariations) \cup
                { L_byte_01, L_byte_01_comment, L_byte_noarg, L_byte_b32_alone, L_byte_bad,
                  L_bytec_0, L_bytec_4, L_bytec_255, L_bytec_256, L_bytec_neg,
                  L_bytecblock_01_01, L_bytecblock_01_abcdef, L_bytecblock_bad,
                  L_addr_zero, L_addr_bad },
      flow |-> { L_bnz_L, L_bnz_M, L_bnz_noarg, L_bnz_2args, L_bnz_L_comment, L_label_L, L_label_M, L_label_L_comment,
                 L_err,
                 L_gtxn_1_Fee, L_intcblock_1_5, L_int_neg, L_comment },
      ops |-> { L_arg_0, L_arg_3, L_arg_4, L_arg_255, L_arg_256, L_arg_neg, L_arg_noarg,
                L_txn_Fee, L_txn_bad, L_txn_noarg,
                L_gtxn_1_Fee, L_gtxn_300_Fee, L_gtxn_1arg,
                L_global_MinBalance, L_global_noarg,
                L_load_1, L_load_noarg, L_store_2, L_store_256,
                L_err, L_err_comment, L_plus, L_pop, L_unknown },
      mixed |-> { L_int_5, L_int_7, L_byte_hex, L_byte_01, L_addr_zero,
                  L_intcblock_7_5, L_bytecblock_01_01, L_bnz_L, L_label_L, L_err } ]

(***************************************************************************)
(* The state: the fields of the Assembler, the progress of AssembleString  *)
(* and the history the properties are stated with.                         *)
(***************************************************************************)
VARIABLES
    out, intc, intcWritten, bytec, bytecWritten, sourceLine, labels, labelReferences,
    status,     \* "running": lines are being assembled; "done": getBytes returned;
                \* "failed": an exception was raised; "hung": a call never returns
    err,        \* <<message, line number carried by the message (0: none)>>
    result,     \* the bytes getBytes returned
    vocab,      \* the vocabulary of the text
    lastLine,   \* history: the last line given to assembleLine
    refs,       \* history: the constant references emitted, <<pool, value, index>>
    blocks,     \* history: the constant blocks written, <<pool, constants>>
    arg, ret    \* the argument and the result of to_varuint called on its own

vars == <<out, intc, intcWritten, bytec, bytecWritten, sourceLine, labels, labelReferences,
          status, err, result, vocab, lastLine, refs, blocks, arg, ret>>

Self ==
    [out |-> out, intc |-> intc, intcWritten |-> intcWritten, bytec |-> bytec,
     bytecWritten |-> bytecWritten, sourceLine |-> sourceLine, labels |-> labels,
     labelReferences |-> labelReferences]

NoLabels == [n \in {} |-> 0]

\* Assembler.__init__
Init ==
    /\ out = <<>>
    /\ intc = <<>>
    /\ intcWritten = FALSE
    /\ bytec = <<>>
    /\ bytecWritten = FALSE
    /\ sourceLine = 0
    /\ labels = NoLabels
    /\ labelReferences = <<>>
    /\ status = "running"
    /\ err = <<"", 0>>
    /\ result = <<>>
    /\ vocab \in DOMAIN Vocabulary
    /\ lastLine = <<>>
    /\ refs = <<>>
    /\ blocks = <<>>
    /\ arg = 0
    /\ ret = <<>>

\* the state after a call with outcome r
Becomes(r, next) ==
    /\ out' = r.self.out
    /\ intc' = r.self.intc
    /\ intcWritten' = r.self.intcWritten
    /\ bytec' = r.self.bytec
    /\ bytecWritten' = r.self.bytecWritten
    /\ sourceLine' = r.self.sourceLine
    /\ labels' = r.self.labels
    /\ labelReferences' = r.self.labelReferences
    /\ status' = IF r.hung THEN "hung" ELSE IF r.raised # "" THEN "failed" ELSE next
    /\ err' = <<r.raised, r.line>>
    /\ result' = r.value
    /\ refs' = IF r.ref # <<>> THEN Append(refs, r.ref) ELSE refs
    /\ blocks' = blocks \o r.blocks
    /\ vocab' = vocab
    /\ UNCHANGED <<arg, ret>>

\* self in an iteration of the loop of assembleLineSource: the line counter
\* has been advanced
Entered == [Self EXCEPT !.sourceLine = @ + 1]

\* the state after assembleLine(rawline) had the outcome r
Line(rawline, r) ==
    /\ Becomes(r, "running")
    /\ lastLine' = rawline

\* AssembleString is still in the loop of assembleLineSource
Assembling == status = "running" /\ sourceLine < MaxLines

\* assembleLine, one action for each target of its dispatch: the early
\* return, the assemble_<mnemonic> methods, the default of a known opcode
\* (the opcode byte alone), a label declaration, and the unknown opcode
Line_skip ==
    Assembling /\ \E rawline \in Vocabulary[vocab] :
        /\ HandlerOf(rawline) = "skip"
        /\ Line(rawline, Returned(Entered))

Line_int ==
    Assembling /\ \E rawline \in Vocabulary[vocab] :
        /\ HandlerOf(rawline) = "int"
        /\ Line(rawline, assemble_int(Entered, OpOf(rawline), Args(rawline)))

Line_intc ==
    Assembling /\ \E rawline \in Vocabulary[vocab] :
        /\ HandlerOf(rawline) = "intc"
        /\ Line(rawline, assemble_intc(Entered, OpOf(rawline), Args(rawline)))

Line_intcblock ==
    Assembling /\ \E rawline \in Vocabulary[vocab] :
        /\ HandlerOf(rawline) = "intcblock"
        /\ Line(rawline, assemble_intcblock(Entered, OpOf(rawline), Args(rawline)))

Line_bytec ==
    Assembling /\ \E rawline \in Vocabulary[vocab] :
        /\ HandlerOf(rawline) = "bytec"
        /\ Line(rawline, assemble_bytec(Entered, OpOf(rawline), Args(rawline)))

Line_addr ==
    Assembling /\ \E rawline \in Vocabulary[vocab] :
        /\ HandlerOf(rawline) = "addr"
        /\ Line(rawline, assemble_addr(Entered, OpOf(rawline), Args(rawline)))

Line_byte ==
    Assembling /\ \E rawline \in Vocabulary[vocab] :
        /\ HandlerOf(rawline) = "byte"
        /\ Line(rawline, assemble_byte(Entered, OpOf(rawline), Args(rawline)))

Line_bytecblock ==
    Assembling /\ \E rawline \in Vocabulary[vocab] :
        /\ HandlerOf(rawline) = "bytecblock"
        /\ Line(rawline, assemble_bytecblock(Entered, OpOf(rawline), Args(rawline)))

Line_arg ==
    Assembling /\ \E rawline \in Vocabulary[vocab] :
        /\ HandlerOf(rawline) = "arg"
        /\ Line(rawline, assemble_arg(Entered, OpOf(rawline), Args(rawline)))

Line_txn ==
    Assembling /\ \E rawline \in Vocabulary[vocab] :
        /\ HandlerOf(rawline) = "txn"
        /\ Line(rawline, assemble_txn(Entered, OpOf(rawline), Args(rawline)))

Line_gtxn ==
    Assembling /\ \E rawline \in Vocabulary[vocab] :
        /\ HandlerOf(rawline) = "gtxn"
        /\ Line(rawline, assemble_gtxn(Entered, OpOf(rawline), Args(rawline)))

Line_global ==
    Assembling /\ \E rawline \in Vocabulary[vocab] :
        /\ HandlerOf(rawline) = "global"
        /\ Line(rawline, assemble_global(Entered, OpOf(rawline), Args(rawline)))

Line_bnz ==
    Assembling /\ \E rawline \in Vocabulary[vocab] :
        /\ HandlerOf(rawline) = "bnz"
        /\ Line(rawline, assemble_bnz(Entered, OpOf(rawline), Args(rawline)))

Line_load ==
    Assembling /\ \E rawline \in Vocabulary[vocab] :
        /\ HandlerOf(rawline) = "load"
        /\ Line(rawline, assemble_load(Entered, OpOf(rawline), Args(rawline)))

Line_store ==
    Assembling /\ \E rawline \in Vocabulary[vocab] :
        /\ HandlerOf(rawline) = "store"
        /\ Line(rawline, assemble_store(Entered, OpOf(rawline), Args(rawline)))

Line_op ==
    Assembling /\ \E rawline \in Vocabulary[vocab] :
        /\ HandlerOf(rawline) = "op"
        /\ Line(rawline, Returned(write(Entered, <<OpOf(rawline).Opcode>>)))

Line_label ==
    Assembling /\ \E rawline \in Vocabulary[vocab] :
        /\ HandlerOf(rawline) = "label"
        /\ Line(rawline, setLabel(Entered, LabelOf(rawline)))

Line_unknown ==
    Assembling /\ \E rawline \in Vocabulary[vocab] :
        /\ HandlerOf(rawline) = "unknown"
        /\ Line(rawline, Raised(Entered, "unknown opcode"))

GetBytes ==
    /\ status = "running"
    /\ Becomes(getBytes(Self), "done")
    /\ lastLine' = lastLine

Next ==
    \/ Line_skip \/ Line_int \/ Line_intc \/ Line_intcblock
    \/ Line_bytec \/ Line_addr \/ Line_byte \/ Line_bytecblock
    \/ Line_arg \/ Line_txn \/ Line_gtxn \/ Line_global
    \/ Line_bnz \/ Line_load \/ Line_store
    \/ Line_op \/ Line_label \/ Line_unknown
    \/ GetBytes

Spec == Init /\ [][Next]_vars

(***************************************************************************)
(* to_varuint on its own: the argument is drawn from VaruintArguments, the *)
(* small integers, the values around the powers of 128 and -1.             *)
(***************************************************************************)
MaxVaruint == 300

VaruintArguments ==
    (0..MaxVaruint)
    \cup {16383, 16384, 2097151, 2097152, 268435455, 268435456, 2147483647, 0 - 1}

InitVaruint ==
    /\ out = <<>> /\ intc = <<>> /\ intcWritten = FALSE
    /\ bytec = <<>> /\ bytecWritten = FALSE
    /\ sourceLine = 0 /\ labels = NoLabels /\ labelReferences = <<>>
    /\ status = "running" /\ err = <<"", 0>> /\ result = <<>>
    /\ vocab = "ints" /\ lastLine = <<>> /\ refs = <<>> /\ blocks = <<>>
    /\ arg \in VaruintArguments
    /\ ret = <<>>

Call_to_varuint ==
    /\ status = "running"
    /\ IF varuint_diverges(arg)
       THEN status' = "hung" /\ ret' = ret
       ELSE status' = "done" /\ ret' = to_varuint(arg)
    /\ UNCHANGED <<out, intc, intcWritten, bytec, bytecWritten, sourceLine, labels,
                   labelReferences, err, result, vocab, lastLine, refs, blocks, arg>>

NextVaruint == Call_to_varuint

SpecVaruint == InitVaruint /\ [][NextVaruint]_vars

(***************************************************************************)
(* getBytes after a long source.  The lines are bnz L, bnz M and then err  *)
(* lines with L: after the first a of them and M: after the first b of     *)
(* them; M: may instead be the first line of the source ("earlier") or be  *)
(* missing ("nowhere").  InitResolve is the state assembleLineSource       *)
(* leaves.                                                                 *)
(***************************************************************************)
JumpLimit == 32767

Fill == {0, 1, 7, JumpLimit - 3, JumpLimit - 2, JumpLimit, JumpLimit + 1}

Max(a, b) == IF a >= b THEN a ELSE b

Zeros(n) == [i \in 1..n |-> 0]

InitResolve ==
    /\ intc = <<>> /\ intcWritten = FALSE
    /\ bytec = <<>> /\ bytecWritten = FALSE
    /\ status = "running" /\ err = <<"", 0>> /\ result = <<>>
    /\ vocab = "flow" /\ refs = <<>> /\ blocks = <<>>
    /\ arg = 0 /\ ret = <<>>
    /\ \E a \in Fill, M \in {"later", "earlier", "nowhere"} :
          IF M = "later"
          THEN \E b \in Fill :
                  /\ out = <<64, 0, 0, 64, 0, 0>> \o Zeros(Max(a, b))
                  /\ labels = (<<"L">> :> 6 + a) @@ (<<"M">> :> 6 + b)
                  /\ labelReferences = << <<1, 0, <<"L">>>>, <<2, 3, <<"M">>>> >>
                  /\ sourceLine = 4 + Max(a, b)
                  /\ lastLine = IF a > b THEN L_label_L ELSE L_label_M
          ELSE IF M = "earlier"
          THEN /\ out = <<64, 0, 0, 64, 0, 0>> \o Zeros(a)
               /\ labels = (<<"L">> :> 6 + a) @@ (<<"M">> :> 0)
               /\ labelReferences = << <<2, 0, <<"L">>>>, <<3, 3, <<"M">>>> >>
               /\ sourceLine = 4 + a
               /\ lastLine = L_label_L
          ELSE /\ out = <<64, 0, 0, 64, 0, 0>> \o Zeros(a)
               /\ labels = (<<"L">> :> 6 + a)
               /\ labelReferences = << <<1, 0, <<"L">>>>, <<2, 3, <<"M">>>> >>
               /\ sourceLine = 3 + a
               /\ lastLine = L_label_L

NextResolve == GetBytes

SpecResolve == InitResolve /\ [][NextResolve]_vars

(***************************************************************************)
(* Properties.  A step that assembles a line advances sourceLine; the step *)
(* of getBytes leaves it and ends the run.                                 *)
(***************************************************************************)
LineStep == sourceLine' = sourceLine + 1
GetBytesStep == status = "running" /\ status' # "running" /\ sourceLine' = sourceLine

Count(seq, x) == Cardinality({i \in 1..Len(seq) : seq[i] = x})

\* A reader of the binary format, for stating what a binary contains.
\* The varuint at position i of b: <<value, next position>>, <<-1, i>> when
\* b ends before the varuint does.
RECURSIVE ReadVaruint(_, _)
ReadVaruint(b, i) ==
    IF i > Len(b) THEN <<0 - 1, i>>
    ELSE IF b[i] < 128 THEN <<b[i], i + 1>>
    ELSE LET r == ReadVaruint(b, i + 1) IN
         IF r[1] < 0 THEN r ELSE <<(b[i] - 128) + 128 * r[1], r[2]>>

\* n varuints from position i: <<well-formed, values, next position>>
RECURSIVE ReadVaruints(_, _, _)
ReadVaruints(b, i, n) ==
    IF n = 0 THEN <<TRUE, <<>>, i>>
    ELSE LET v == ReadVaruint(b, i)
             r == ReadVaruints(b, v[2], n - 1)
         IN IF v[1] < 0 THEN <<FALSE, <<>>, i>> ELSE <<r[1], <<v[1]>> \o r[2], r[3]>>

\* n length-prefixed byte strings from position i
RECURSIVE ReadByteStrings(_, _, _)
ReadByteStrings(b, i, n) ==
    IF n = 0 THEN <<TRUE, <<>>, i>>
    ELSE LET len == ReadVaruint(b, i)
             r == ReadByteStrings(b, len[2] + len[1], n - 1)
         IN IF len[1] < 0 \/ len[2] + len[1] - 1 > Len(b) THEN <<FALSE, <<>>, i>>
            ELSE <<r[1], <<SubSeq(b, len[2], len[2] + len[1] - 1)>> \o r[2], r[3]>>

\* a constant block with the given tag at position i
ReadBlock(b, i, tag) ==
    LET n == ReadVaruint(b, i + 1) IN
    IF i > Len(b) \/ b[i] # tag \/ n[1] < 0 THEN <<FALSE, <<>>, i>>
    ELSE IF tag = 32 THEN ReadVaruints(b, n[2], n[1])
    ELSE ReadByteStrings(b, n[2], n[1])

\* the positions (1-based) of the two placeholder bytes of the references
Placeholders(references) ==
    UNION {{references[k][2] + 2, references[k][2] + 3} : k \in 1..Len(references)}

\* the binary of the test: version 1, a byte block holding "abcdef", bytec_0
abcdefBinary == <<1, 38, 1, 6, 97, 98, 99, 100, 101, 102, 40>>

\* C1: each of the thirteen lines of byteConstantVariations, assembled alone
\* by AssembleString, does not fail and yields 01 26 01 06 61 62 63 64 65 66 28.
C1_AllVariantsAssemble ==
    \A i \in 1..Len(byteConstantVariations) :
        (sourceLine = 1 /\ lastLine = byteConstantVariations[i])
            => /\ status # "failed"
               /\ status = "done" => result = abcdefBinary

\* the binary getBytes returns in a step that ends in "done"
C2_Layout ==
    LET b == result'
        v == ReadVaruint(b, 1)
        hasInts == intc # <<>> /\ ~intcWritten
        ib == IF hasInts THEN ReadBlock(b, v[2], 32) ELSE <<TRUE, intc, v[2]>>
        hasBytes == bytec # <<>> /\ ~bytecWritten
        bb == IF hasBytes THEN ReadBlock(b, ib[3], 38) ELSE <<TRUE, bytec, ib[3]>>
    IN /\ v[1] = 1
       /\ ib[1] /\ ib[2] = intc
       /\ bb[1] /\ bb[2] = bytec
       /\ SubSeq(b, bb[3], Len(b)) = out'
       /\ Len(out') = Len(out)
       /\ \A k \in 1..Len(out) : out'[k] # out[k] => k \in Placeholders(labelReferences)

\* the text "int 5", "int 5", "int 7" (in any spelling of the literals)
C2_Scenario ==
    (/\ status = "done" /\ sourceLine = 3 /\ Len(refs) = 3
     /\ \A i \in 1..3 : refs[i][1] = "int"
     /\ <<refs[1][2], refs[2][2], refs[3][2]>> = <<5, 5, 7>>)
        => /\ <<refs[1][3], refs[2][3], refs[3][3]>> = <<0, 0, 1>>
           /\ intc = <<5, 7>>
           /\ result = <<1, 32, 2, 5, 7, 34, 34, 35>>

\* C2: the binary getBytes returns is to_varuint(version), then the int
\* block listing the int pool in order iff the pool is not empty and no int
\* block was written before, then the byte block under the same condition,
\* then the instruction stream, changed only in the placeholders of the
\* references; "int 5", "int 5", "int 7" leaves the pool [5, 7] and yields
\* 01 20 02 05 07 22 22 23.
C2_GetBytesLayout ==
    /\ [][(GetBytesStep /\ status' = "done") => C2_Layout]_vars
    /\ []C2_Scenario

C2_Witness ==
    /\ status = "done"
    /\ result = <<1, 32, 2, 5, 7, 34, 34, 35>>
    /\ refs = << <<"int", 5, 0>>, <<"int", 5, 0>>, <<"int", 7, 1>> >>

\* C3: two int lines with the same value (two byte/addr lines with the same
\* bytes) emit a reference to the same pool index, and every constant block
\* of the resulting binary contains that value exactly once.
C3_Dedup ==
    /\ \A i, j \in 1..Len(refs) :
          (refs[i][1] = refs[j][1] /\ refs[i][2] = refs[j][2]) => refs[i][3] = refs[j][3]
    /\ status = "done" =>
          \A i \in 1..Len(refs), k \in 1..Len(blocks) :
              blocks[k][1] = refs[i][1] => Count(blocks[k][2], refs[i][2]) = 1

\* the lines that reference the index they give:
\* <<line, generic opcode, opcode of index 0, index>>
DirectReferences ==
    { <<L_intc_0, 33, 34, 0>>, <<L_intc_3, 33, 34, 3>>, <<L_intc_4, 33, 34, 4>>,
      <<L_intc_255, 33, 34, 255>>, <<L_intc_256, 33, 34, 256>>, <<L_intc_neg, 33, 34, 0 - 1>>,
      <<L_bytec_0, 39, 40, 0>>, <<L_bytec_4, 39, 40, 4>>, <<L_bytec_255, 39, 40, 255>>,
      <<L_bytec_256, 39, 40, 256>>, <<L_bytec_neg, 39, 40, 0 - 1>>,
      <<L_arg_0, 44, 45, 0>>, <<L_arg_3, 44, 45, 3>>, <<L_arg_4, 44, 45, 4>>,
      <<L_arg_255, 44, 45, 255>>, <<L_arg_256, 44, 45, 256>>, <<L_arg_neg, 44, 45, 0 - 1>> }

\* what a step that references index i appends
C4_Reference(generic, fast, i) ==
    IF i \in 0..3 THEN status' = "running" /\ out' = out \o <<fast + i>>
    ELSE IF i \in 4..255 THEN status' = "running" /\ out' = out \o <<generic, i>>
    ELSE status' = "failed" /\ out' = out

\* C4: a reference to index 0..3 appends the one-byte opcode (0x22.., 0x28..,
\* 0x2d..), a reference to index 4..255 appends the generic opcode (0x21, 0x27,
\* 0x2c) and the index byte, and a reference to an index of 256 or more, or to
\* a negative index, fails and appends nothing; for intc, bytec and arg lines
\* and for the references int, byte and addr lines emit.
C4_FastPath ==
    [][LineStep =>
        /\ \A d \in DirectReferences :
              lastLine' = d[1] => C4_Reference(d[2], d[3], d[4])
        /\ refs' # refs =>
              LET r == refs'[Len(refs')] IN
              C4_Reference(IF r[1] = "int" THEN 33 ELSE 39,
                           IF r[1] = "int" THEN 34 ELSE 40, r[3])]_vars

C4_Witness ==
    /\ status = "running"
    /\ refs # <<>> /\ refs[Len(refs)] = <<"int", 5, 4>>
    /\ Len(out) >= 2 /\ SubSeq(out, Len(out) - 1, Len(out)) = <<33, 4>>

\* how a reference <<line, pc, label>> stands to the label table
Undefined(r) == r[3] \notin DOMAIN labels

\* the label was declared on a line before the bnz line: before the three
\* bytes of the branch were appended
DeclaredEarlier(r) == r[3] \in DOMAIN labels /\ labels[r[3]] <= r[2]

TooFar(r) == r[3] \in DOMAIN labels /\ labels[r[3]] - (r[2] + 3) > 32767

Unresolvable(r) == Undefined(r) \/ DeclaredEarlier(r) \/ TooFar(r)

BackwardJump == "label is before reference but only forward jumps are allowed"
UndefinedLabel == "reference to undefined label"

\* C5 as stated, read for the runs in which getBytes terminates: if a bnz
\* line references a label declared on an earlier line getBytes fails with
\* the backward-jump error, and if a bnz line references a label declared
\* nowhere getBytes fails with the undefined-label error.
C5_AsStated ==
    [][(GetBytesStep /\ status' # "hung") =>
        /\ (\E k \in 1..Len(labelReferences) : DeclaredEarlier(labelReferences[k]))
              => (status' = "failed" /\ err'[1] = BackwardJump)
        /\ (\E k \in 1..Len(labelReferences) : Undefined(labelReferences[k]))
              => (status' = "failed" /\ err'[1] = UndefinedLabel)]_vars

\* C5, amended: if some bnz line references a label declared on an earlier
\* line or declared nowhere, getBytes returns no binary; getBytes raises only
\* when some reference cannot be resolved, and the error is then that of the
\* first such reference in source order, with its line: the backward-jump
\* error if its label was declared on an earlier line (offset 0 included),
\* the undefined-label error if its label is declared nowhere.
C5_FirstFailing ==
    [][GetBytesStep =>
        LET bad == {k \in 1..Len(labelReferences) : Unresolvable(labelReferences[k])} IN
        /\ bad # {} => (status' # "done" /\ result' = <<>>)
        /\ status' = "failed" =>
              /\ bad # {}
              /\ LET r == labelReferences[Min(bad)] IN
                 err' = << IF Undefined(r) THEN UndefinedLabel
                           ELSE IF DeclaredEarlier(r) THEN BackwardJump
                           ELSE "label is too far away",
                           r[1] >>]_vars

C5_Witness ==
    /\ status = "failed"
    /\ err = <<BackwardJump, 2>>
    /\ labelReferences = << <<2, 0, <<"L">>>> >>
    /\ labels[<<"L">>] = 0

\* the instruction stream of the binary returned in a step that ends in "done"
C6_Patched ==
    LET n == Len(result') - Len(out)
        stream == SubSeq(result', n + 1, Len(result'))
    IN /\ n >= 0
       /\ Len(stream) = Len(out)
       /\ \A k \in 1..Len(labelReferences) :
             LET p == labelReferences[k][2]
                 name == labelReferences[k][3]
             IN /\ name \in DOMAIN labels
                /\ stream[p + 1] = 64
                /\ stream[p + 2] = (labels[name] - (p + 3)) \div 256
                /\ stream[p + 3] = (labels[name] - (p + 3)) % 256
       /\ \A i \in (1..Len(out)) \ Placeholders(labelReferences) : stream[i] = out[i]

\* C6: when resolution succeeds, for every reference at offset p to a label
\* at offset d the stream holds 0x40 at p and the big-endian 16-bit d - (p+3)
\* at p+1 and p+2 (a label at p+10 gives 00 07); every other byte of the
\* stream and its length are unchanged.
C6_LabelPatching == [][(GetBytesStep /\ status' = "done") => C6_Patched]_vars

C6_Witness ==
    /\ status = "done"
    /\ labelReferences = << <<1, 0, <<"L">>>> >>
    /\ labels[<<"L">>] = 10
    /\ result = <<1, 64, 0, 7, 32, 5, 1, 2, 3, 4, 5>>

\* C7: over the lines and getBytes, the int constant block is written at
\* most once and the byte constant block is written at most once.
C7_BlockOnce ==
    /\ Cardinality({k \in 1..Len(blocks) : blocks[k][1] = "int"}) <= 1
    /\ Cardinality({k \in 1..Len(blocks) : blocks[k][1] = "byte"}) <= 1

\* C8: the int pool holds no two equal integers and the byte pool holds no
\* two equal byte strings.
C8_PoolsDistinct ==
    /\ \A i, j \in 1..Len(intc) : i # j => intc[i] # intc[j]
    /\ \A i, j \in 1..Len(bytec) : i # j => bytec[i] # bytec[j]

\* C9: once a line has emitted a reference to index i for value v, the pool
\* entry at index i is v in every later state.
C9_StableIndex ==
    \A k \in 1..Len(refs) :
        LET pool == IF refs[k][1] = "int" THEN intc ELSE bytec IN
        refs[k][3] + 1 <= Len(pool) /\ pool[refs[k][3] + 1] = refs[k][2]

\* the label declarations: <<line, name>>
LabelLines ==
    { <<L_label_L, <<"L">>>>, <<L_label_M, <<"M">>>>, <<L_label_L_comment, <<"L">>>> }

\* what a step that declares the label does
C10_Declaration(name) ==
    /\ out' = out /\ intc' = intc /\ intcWritten' = intcWritten
    /\ bytec' = bytec /\ bytecWritten' = bytecWritten
    /\ labelReferences' = labelReferences
    /\ IF name \in DOMAIN labels
       THEN status' = "failed" /\ err'[1] = "duplicate label" /\ labels' = labels
       ELSE /\ status' = "running"
            /\ DOMAIN labels' = DOMAIN labels \cup {name}
            /\ labels'[name] = Len(out)
            /\ \A n \in DOMAIN labels : labels'[n] = labels[n]

\* C10: a label declaration whose name is already in the label table fails
\* with the duplicate-label error and leaves the label table, the output
\* buffer, the pools and the reference list unchanged; a declaration of a new
\* name records the current length of the output buffer and changes nothing
\* else.
C10_LabelOnce ==
    [][LineStep =>
        \A l \in LabelLines : lastLine' = l[1] => C10_Declaration(l[2])]_vars

C10_Witness ==
    /\ status = "failed"
    /\ err[1] = "duplicate label"
    /\ lastLine = L_label_L
    /\ labels[<<"L">>] = 0
    /\ Len(out) > 0


\* the handlers that expect one argument; gtxn expects two
OneArgument == {"int", "intc", "bytec", "addr", "arg", "txn", "global", "load", "store", "bnz"}

\* C11: a line whose handler expects one argument (two for gtxn) and that
\* gives another number of arguments fails, writes nothing to the output
\* buffer and records no label reference.
C11_ArgumentCount ==
    [][LineStep =>
        LET fn == HandlerOf(lastLine') IN
        (\/ fn \in OneArgument /\ Len(Args(lastLine')) # 1
         \/ fn = "gtxn" /\ Len(Args(lastLine')) # 2)
        => (status' = "failed" /\ out' = out /\ labelReferences' = labelReferences)]_vars


\* C12: a failure on line k ends the run: no later line is processed, no
\* binary is produced, and the error carries the line number k.
C12_LineNumber ==
    /\ [][(LineStep /\ status' = "failed") => err'[2] = sourceLine']_vars
    /\ [][status = "failed" => UNCHANGED vars]_vars
    /\ [](status = "failed" => result = <<>>)


\* the integer a sequence of 7-bit groups spells, least significant first
RECURSIVE Decode(_)
Decode(b) == IF b = <<>> THEN 0 ELSE (Head(b) % 128) + 128 * Decode(Tail(b))

\* C13: for x >= 0, to_varuint(x) is not empty, every byte but the last has
\* its high bit set and the last has it clear, the 7-bit groups spell x
\* least significant first, there is no trailing zero group, and
\* to_varuint(0) is the byte 00.
C13_Varuint ==
    status = "done" =>
        /\ arg >= 0
        /\ Len(ret) >= 1
        /\ \A i \in 1..Len(ret) : ret[i] \in 0..255
        /\ \A i \in 1..(Len(ret) - 1) : ret[i] >= 128
        /\ ret[Len(ret)] < 128
        /\ Decode(ret) = arg
        /\ Len(ret) > 1 => ret[Len(ret)] # 0
        /\ arg = 0 => ret = <<0>>

C13_Witness == status = "done" /\ arg = 16384 /\ ret = <<128, 128, 1>>


\* the jump of a reference to a defined label
Jump(r) == labels[r[3]] - (r[2] + 3)

InRange(r) == r[3] \in DOMAIN labels /\ Jump(r) >= 0 /\ Jump(r) <= JumpLimit

\* C14: resolution succeeds exactly when every reference has
\* 0 <= d - (p+3) <= 0x7FFF, and then each reference is patched with its jump
\* (00 00 for a label right after the branch, 7F FF for a jump of 0x7FFF);
\* otherwise the first reference in recording order that is out of range
\* determines the error: too far for a jump of 0x8000 or more.
C14_JumpRange ==
    [][GetBytesStep =>
        LET bad == {k \in 1..Len(labelReferences) : ~InRange(labelReferences[k])}
            n == Len(result') - Len(out)
        IN /\ status' \in {"done", "failed"}
           /\ status' = "done" <=> bad = {}
           /\ status' = "done" =>
                 \A k \in 1..Len(labelReferences) :
                    LET r == labelReferences[k] IN
                    /\ result'[n + r[2] + 2] = Jump(r) \div 256
                    /\ result'[n + r[2] + 3] = Jump(r) % 256
           /\ status' = "failed" =>
                 LET r == labelReferences[Min(bad)] IN
                 /\ result' = <<>>
                 /\ err'[2] = r[1]
                 /\ err'[1] = IF Undefined(r) THEN UndefinedLabel
                              ELSE IF Jump(r) < 0 THEN BackwardJump
                              ELSE "label is too far away"
                 /\ (r[3] \in DOMAIN labels /\ Jump(r) >= 32768)
                       => err'[1] = "label is too far away"]_vars

\* both references resolve: L is 0x7FFF past its branch, M right after its own
C14_Witness ==
    /\ status = "done"
    /\ labelReferences = << <<1, 0, <<"L">>>>, <<2, 3, <<"M">>>> >>
    /\ labels[<<"L">>] = 32770 /\ labels[<<"M">>] = 6
    /\ SubSeq(result, 1, 7) = <<1, 64, 127, 255, 64, 0, 0>>

\* the first reference is 0x8000 past its branch, the second is undefined:
\* the error is the first one's
C14_WitnessTooFar ==
    /\ status = "failed"
    /\ labels = (<<"L">> :> 32771)
    /\ err = <<"label is too far away", 1>>


\* the lines assembleLine returns from at once
SkippedLines == {L_empty, L_blank, L_comment, L_comment_indented}

\* instruction lines with a trailing comment: <<with the comment, without it>>
Commented ==
    { <<L_int_5_comment, L_int_5>>, <<L_byte_01_comment, L_byte_01>>,
      <<L_bnz_L_comment, L_bnz_L>>, <<L_err_comment, L_err>>,
      <<L_label_L_comment, L_label_L>> }

\* the outcome of assembleLine on one of the lines without a comment
Uncommented(rawline) ==
    CASE rawline = L_int_5 -> assemble_int(Entered, OpOf(rawline), Args(rawline))
      [] rawline = L_byte_01 -> assemble_byte(Entered, OpOf(rawline), Args(rawline))
      [] rawline = L_bnz_L -> assemble_bnz(Entered, OpOf(rawline), Args(rawline))
      [] rawline = L_err -> Returned(write(Entered, <<0>>))
      [] rawline = L_label_L -> setLabel(Entered, <<"L">>)

\* C15: an empty line, a blank line and a line whose first token starts with
\* // leave the output buffer, the pools, their written flags, the label
\* table and the reference list unchanged; an instruction line followed by a
\* comment changes the state exactly as the line without the comment does.
C15_Comments ==
    [][LineStep =>
        /\ lastLine' \in SkippedLines =>
              /\ status' = "running"
              /\ UNCHANGED <<out, intc, intcWritten, bytec, bytecWritten, labels,
                             labelReferences>>
        /\ \A c \in Commented :
              lastLine' = c[1] => Becomes(Uncommented(c[2]), "running")]_vars

C15_Witness ==
    /\ status = "running"
    /\ lastLine = L_int_5_comment
    /\ sourceLine = 2
    /\ intc = <<7, 5>>
    /\ out = <<34, 35>>


\* C16: in a binary getBytes returned, every reference an int line emitted
\* has an index smaller than the number of values of the int block in the
\* binary, and every reference a byte or addr line emitted has an index
\* smaller than the number of values of the byte block.
C16_ReferencesInBlock ==
    status = "done" =>
        \A k \in 1..Len(refs) :
            /\ \E b \in 1..Len(blocks) : blocks[b][1] = refs[k][1]
            /\ \A b \in 1..Len(blocks) :
                  blocks[b][1] = refs[k][1] => refs[k][3] < Len(blocks[b][2])


\* C17: assembling the lines and calling getBytes always ends, in a binary
\* or in an error: no call runs forever.
C17_Terminates == status # "hung"


\* the bnz lines that record a reference
BnzLines == {L_bnz_L, L_bnz_M, L_bnz_2args, L_bnz_L_comment}

\* the references and the labels fit the buffer: each reference (line, pc,
\* name) has its three bytes 40 00 00 at pc, a line number among the lines
\* read so far, and the references are in increasing pc order
WellPlaced(references, buffer, table, lines) ==
    /\ \A k \in 1..Len(references) :
          LET pc == references[k][2] IN
          /\ pc >= 0 /\ pc + 3 <= Len(buffer)
          /\ buffer[pc + 1] = 64 /\ buffer[pc + 2] = 0 /\ buffer[pc + 3] = 0
          /\ references[k][1] \in 1..lines
    /\ \A k \in 1..(Len(references) - 1) : references[k][2] < references[k + 1][2]
    /\ \A n \in DOMAIN table : table[n] <= Len(buffer)

\* C18: during the pass over the lines every recorded reference (line, pc,
\* name) has pc + 3 <= the length of the buffer, 40 00 00 at pc, and the
\* number of the bnz line that created it as its line; the references are in
\* increasing pc order and every label offset is at most the buffer length.
C18_References ==
    /\ [](status = "running" => WellPlaced(labelReferences, out, labels, sourceLine))
    /\ [][LineStep =>
            /\ WellPlaced(labelReferences', out', labels', sourceLine')
            /\ labelReferences' # labelReferences =>
                  /\ lastLine' \in BnzLines
                  /\ Len(labelReferences') = Len(labelReferences) + 1
                  /\ SubSeq(labelReferences', 1, Len(labelReferences)) = labelReferences
                  /\ labelReferences'[Len(labelReferences')][1] = sourceLine'
                  /\ labelReferences'[Len(labelReferences')][2] = Len(out)]_vars

C18_Witness ==
    /\ status = "running"
    /\ labelReferences = << <<1, 0, <<"L">>>>, <<3, 4, <<"M">>>> >>
    /\ out = <<64, 0, 0, 0, 64, 0, 0>>

====
